---- MODULE Spec2Model ----
(***************************************************************************)
(* Model of umbral-pre/src/capsule.rs: the Capsule KEM object, its         *)
(* self-verification and serialization, direct decapsulation and the       *)
(* threshold combination open_reencrypted with its Lagrange helper.        *)
(*                                                                         *)
(* The elliptic-curve group is modelled as the cyclic group of prime order *)
(* Order; a CurvePoint is represented by its discrete logarithm to the     *)
(* generator, so point addition is addition and scalar multiplication is   *)
(* multiplication modulo Order.  The arithmetic of the code is kept exact. *)
(* The domain hash functions are members of a family of arbitrary          *)
(* deterministic functions selected by hash_salt: nothing in capsule.rs    *)
(* depends on more than their determinism and their range.                 *)
(***************************************************************************)
EXTENDS Integers, Naturals, Sequences, FiniteSets, TLC

VARIABLES
    hash_salt,        \* which member of the hash family is in use
    delegating_sk,    \* secret scalar of the delegating key pair
    receiving_sk,     \* secret scalar of the receiving key pair
    capsule,          \* first value returned by from_public_key, or NoCapsule
    key_seed,         \* second value returned by from_public_key, or NoSeed
    capsule2,         \* a second from_public_key call with the same key
    key_seed2,
    original_seed,    \* result of capsule.open_original(delegating_sk)
    capsule_arr,      \* a serialized capsule (possibly corrupted), or NoArray
    arr_source,       \* where capsule_arr comes from, and the corrupted field
    capsule_back,     \* result of Capsule::from_array(capsule_arr)
    verified,         \* last call of new_verified: its arguments and result
    kfrags,           \* key fragments of the first generate_kfrags run
    threshold,        \* threshold of the first run
    kfrags2,          \* key fragments of a second generate_kfrags run
    cfrags,           \* the capsule fragment list handed to open_reencrypted
    opened            \* last call of open_reencrypted: capsule and result

vars == <<hash_salt, delegating_sk, receiving_sk, capsule, key_seed, capsule2,
          key_seed2, original_seed, capsule_arr, arr_source, capsule_back,
          verified, kfrags, threshold, kfrags2, cfrags, opened>>

----------------------------------------------------------------------------
(* Bounds of the model *)

\* longest capsule fragment list handed to open_reencrypted
MaxCFrags == 3
\* the members 0 .. MaxSalt of the hash family are explored
MaxSalt == 3

----------------------------------------------------------------------------
(* Curve primitives (crate::curve): group of prime order *)

Order == 7

Scalars == 0 .. (Order - 1)
NonZeroScalars == 1 .. (Order - 1)
Points == 0 .. (Order - 1)

Generator == 1
Identity == 0

PointAdd(p1, p2) == (p1 + p2) % Order
PointMul(p, s) == (p * s) % Order
ScalarAdd(s1, s2) == (s1 + s2) % Order
ScalarSub(s1, s2) == (s1 + Order - s2) % Order
ScalarMul(s1, s2) == (s1 * s2) % Order

None == [some |-> FALSE]
Some(v) == [some |-> TRUE, val |-> v]

\* inverse of a non-zero scalar
Inv(s) == CHOOSE y \in NonZeroScalars : (s * y) % Order = 1

\* CurveScalar::invert: absent on the non-invertible input
ScalarInvert(s) == IF s = 0 THEN None ELSE Some(Inv(s))

\* Compressed fixed-width encoding of a point: a tag carrying the sign of
\* the y coordinate and the x coordinate, which a point shares with its
\* negation.  The identity has no valid fixed-width encoding.
XWidth == 2
TagWidth == 2
ScalarWidth == 3

XCoord(p) == IF 2 * p < Order THEN p ELSE Order - p

PointToArray(p) ==
    IF p = Identity THEN <<0, 0>>
    ELSE <<IF 2 * p < Order THEN 2 ELSE 3, XCoord(p)>>

PointFromArray(a) ==
    IF a[1] \in {2, 3} /\ a[2] \in 1 .. ((Order - 1) \div 2)
    THEN Some(IF a[1] = 2 THEN a[2] ELSE Order - a[2])
    ELSE None

ScalarToArray(s) == s

ScalarFromArray(c) == IF c < Order THEN Some(c) ELSE None

----------------------------------------------------------------------------
(* Domain hash functions (crate::hashing_ds), all to non-zero scalars *)

HashMix(n) == 1 + (n % (Order - 1))

hash_capsule_points(point_e, point_v) ==
    HashMix(point_e * point_e * (hash_salt + 1) + 3 * point_v
            + point_e * point_v * (hash_salt + 2) + hash_salt)

hash_to_polynomial_arg(precursor, pub_key, dh_point, kfrag_id) ==
    HashMix(precursor + 2 * pub_key + 3 * dh_point * kfrag_id
            + kfrag_id * kfrag_id * (hash_salt + 1) + hash_salt)

hash_to_shared_secret(precursor, pub_key, dh_point) ==
    HashMix(2 * precursor + pub_key * dh_point + 3 * dh_point + hash_salt)

----------------------------------------------------------------------------
(* Keys and parameters (crate::keys, crate::params) *)

PublicKey(sk) == PointMul(Generator, sk)

ParametersNew == [u |-> 3]

----------------------------------------------------------------------------
(* Capsule *)

NoCapsule == [point_e |-> Order, point_v |-> Order, signature |-> Order,
              params |-> [u |-> Order]]
NoSeed == <<4, 0>>
NoArray == <<>>

CapsuleNew(point_e, point_v, signature) ==
    [params |-> ParametersNew, point_e |-> point_e, point_v |-> point_v,
     signature |-> signature]

verify_no_hash(c) ==
    PointMul(Generator, c.signature) = PointAdd(c.point_v, c.point_e)

verify(c) ==
    LET g == Generator
        h == hash_capsule_points(c.point_e, c.point_v)
    IN  PointMul(g, c.signature) = PointAdd(c.point_v, PointMul(c.point_e, h))

new_verified_unchecked(point_e, point_v, signature) ==
    Some(CapsuleNew(point_e, point_v, signature))

new_verified(point_e, point_v, signature) ==
    LET c == CapsuleNew(point_e, point_v, signature)
    IN  IF verify(c) THEN Some(c) ELSE None

from_public_key_bad_sig(priv_r, priv_u, delegating_pk) ==
    LET pub_r == PointMul(Generator, priv_r)
        pub_u == PointMul(Generator, priv_u)
        h == hash_capsule_points(pub_r, pub_u)
        s == ScalarAdd(priv_r, ScalarMul(priv_u, h))
        shared_key == PointMul(delegating_pk, ScalarAdd(priv_r, priv_u))
    IN  [capsule |-> CapsuleNew(pub_r, pub_u, s),
         seed |-> PointToArray(shared_key)]

from_public_key(priv_r, priv_u, delegating_pk) ==
    LET g == Generator
        pub_r == PointMul(g, priv_r)
        pub_u == PointMul(g, priv_u)
        h == hash_capsule_points(pub_r, pub_u)
        s == ScalarAdd(priv_u, ScalarMul(priv_r, h))
        shared_key == PointMul(delegating_pk, ScalarAdd(priv_r, priv_u))
    IN  [capsule |-> CapsuleNew(pub_r, pub_u, s),
         seed |-> PointToArray(shared_key)]

open_original_e_only(c, sk) ==
    PointToArray(PointMul(c.point_e, sk))

open_original(c, sk) ==
    PointToArray(PointMul(PointAdd(c.point_e, c.point_v), sk))

to_array_swapped(c) ==
    PointToArray(c.point_v) \o PointToArray(c.point_e)
        \o <<ScalarToArray(c.signature)>>

to_array(c) ==
    PointToArray(c.point_e) \o PointToArray(c.point_v)
        \o <<ScalarToArray(c.signature)>>

ConstructionError == [ok |-> FALSE, err |-> "ConstructionError"]
OkCapsule(c) == [ok |-> TRUE, capsule |-> c]

from_array(arr) ==
    LET point_e == PointFromArray(<<arr[1], arr[2]>>)
        point_v == PointFromArray(<<arr[3], arr[4]>>)
        signature == ScalarFromArray(arr[5])
    IN  IF ~point_e.some THEN ConstructionError
        ELSE IF ~point_v.some THEN ConstructionError
        ELSE IF ~signature.some THEN ConstructionError
        ELSE LET c == new_verified(point_e.val, point_v.val, signature.val)
             IN  IF c.some THEN OkCapsule(c.val) ELSE ConstructionError

----------------------------------------------------------------------------
(* Fragment issuance and the proxy transform (crate::key_frag,             *)
(* crate::capsule_frag): Shamir shares of delegating_sk / d, evaluated at  *)
(* the coordinates that open_reencrypted recomputes.                       *)

\* shares issued by one generate_kfrags call (capsule.rs test: 2 of 3)
NumKFrags == 3

RECURSIVE poly_eval(_, _)
poly_eval(coeffs, x) ==
    IF coeffs = <<>> THEN 0
    ELSE ScalarAdd(Head(coeffs), ScalarMul(x, poly_eval(Tail(coeffs), x)))

generate_kfrags(sk, receiving_pk, priv_precursor, coeffs, ids) ==
    LET precursor == PointMul(Generator, priv_precursor)
        dh_point == PointMul(receiving_pk, priv_precursor)
        d == hash_to_shared_secret(precursor, receiving_pk, dh_point)
        coefficients == <<ScalarMul(sk, Inv(d))>> \o coeffs
    IN  [i \in 1 .. Len(ids) |->
            [id |-> ids[i],
             key |-> poly_eval(coefficients,
                        hash_to_polynomial_arg(precursor, receiving_pk,
                                               dh_point, ids[i])),
             precursor |-> precursor]]

reencrypt(c, kfrag) ==
    [point_e1 |-> PointMul(c.point_e, kfrag.key),
     point_v1 |-> PointMul(c.point_v, kfrag.key),
     kfrag_id |-> kfrag.id,
     precursor |-> kfrag.precursor]

----------------------------------------------------------------------------
(* Threshold combination *)

Err(e) == [ok |-> FALSE, err |-> e]
OkSeed(seed) == [ok |-> TRUE, seed |-> seed]

RECURSIVE lambda_loop(_, _, _, _)
lambda_loop(xs, i, j, res) ==
    IF j > Len(xs) THEN Some(res)
    ELSE IF j = i THEN lambda_loop(xs, i, j + 1, res)
    ELSE LET inv_diff_opt == ScalarInvert(ScalarSub(xs[j], xs[i]))
         IN  IF ~inv_diff_opt.some THEN None
             ELSE lambda_loop(xs, i, j + 1,
                      ScalarMul(ScalarMul(res, xs[j]), inv_diff_opt.val))

RECURSIVE lambda_loop_skip_zero(_, _, _, _)
lambda_loop_skip_zero(xs, i, j, res) ==
    IF j > Len(xs) THEN Some(res)
    ELSE IF j = i \/ xs[j] = xs[i] THEN lambda_loop_skip_zero(xs, i, j + 1, res)
    ELSE lambda_loop_skip_zero(xs, i, j + 1,
             ScalarMul(ScalarMul(res, xs[j]), Inv(ScalarSub(xs[j], xs[i]))))

RECURSIVE lambda_loop_no_numerator(_, _, _, _)
lambda_loop_no_numerator(xs, i, j, res) ==
    IF j > Len(xs) THEN Some(res)
    ELSE IF j = i THEN lambda_loop_no_numerator(xs, i, j + 1, res)
    ELSE LET inv_diff_opt == ScalarInvert(ScalarSub(xs[j], xs[i]))
         IN  IF ~inv_diff_opt.some THEN None
             ELSE lambda_loop_no_numerator(xs, i, j + 1,
                      ScalarMul(res, inv_diff_opt.val))

lambda_coeff_no_numerator(xs, i) == lambda_loop_no_numerator(xs, i, 1, 1)

lambda_coeff_skip_zero(xs, i) == lambda_loop_skip_zero(xs, i, 1, 1)

lambda_coeff(xs, i) == lambda_loop(xs, i, 1, 1)

\* the loop of capsule.rs lines 216-223: the weighted sums, or the index
\* at which lambda_coeff found no inverse
RECURSIVE combine_loop(_, _, _, _, _)
combine_loop(frags, lc, i, e_prime, v_prime) ==
    IF i > Len(frags) THEN [ok |-> TRUE, e_prime |-> e_prime, v_prime |-> v_prime]
    ELSE LET lambda_i == lambda_coeff(lc, i)
         IN  IF ~lambda_i.some THEN [ok |-> FALSE, at |-> i]
             ELSE combine_loop(frags, lc, i + 1,
                      PointAdd(e_prime, PointMul(frags[i].point_e1, lambda_i.val)),
                      PointAdd(v_prime, PointMul(frags[i].point_v1, lambda_i.val)))

\* capsule.rs lines 198-202
all_same_precursor_first_two(frags) ==
    Len(frags) < 2 \/ frags[2].precursor = frags[1].precursor

all_same_precursor(frags) ==
    LET precursor == frags[1].precursor
    IN  \A i \in 1 .. Len(frags) : frags[i].precursor = precursor

\* capsule.rs lines 228-237
validation_skipped(c, delegating_pk, e_prime, v_prime, d) == TRUE

validation_holds(c, delegating_pk, e_prime, v_prime, d) ==
    LET s == c.signature
        h == hash_capsule_points(c.point_e, c.point_v)
        orig_pub_key == delegating_pk
        inv_d == Inv(d)
    IN  ~(PointMul(orig_pub_key, ScalarMul(s, inv_d))
             # PointAdd(PointMul(e_prime, h), v_prime))

\* capsule.rs lines 239-240
shared_seed_without_d(e_prime, v_prime, d) ==
    PointToArray(PointAdd(e_prime, v_prime))

shared_seed(e_prime, v_prime, d) ==
    PointToArray(PointMul(PointAdd(e_prime, v_prime), d))

\* capsule.rs lines 198-241: the call on a non-empty list
open_nonempty(c, sk, delegating_pk, frags) ==
    LET precursor == frags[1].precursor IN
    IF ~all_same_precursor(frags) THEN Err("MismatchedCapsuleFrags")
    ELSE
    LET pub_key == PublicKey(sk)
        dh_point == PointMul(precursor, sk)
        lc == [i \in 1 .. Len(frags) |->
                 hash_to_polynomial_arg(precursor, pub_key, dh_point,
                                        frags[i].kfrag_id)]
        sums == combine_loop(frags, lc, 1, Identity, Identity)
    IN
    IF ~sums.ok THEN Err("RepeatingCapsuleFrags")
    ELSE
    LET e_prime == sums.e_prime
        v_prime == sums.v_prime
        d == hash_to_shared_secret(precursor, pub_key, dh_point)
    IN
    IF ~validation_holds(c, delegating_pk, e_prime, v_prime, d)
    THEN Err("ValidationFailed")
    ELSE OkSeed(shared_seed(e_prime, v_prime, d))

open_reencrypted_one_is_empty(c, sk, delegating_pk, frags) ==
    IF Len(frags) <= 1 THEN Err("NoCapsuleFrags")
    ELSE open_nonempty(c, sk, delegating_pk, frags)

open_reencrypted(c, sk, delegating_pk, frags) ==
    IF frags = <<>> THEN Err("NoCapsuleFrags")
    ELSE open_nonempty(c, sk, delegating_pk, frags)

----------------------------------------------------------------------------
(* State machine *)

NotParsed == [ok |-> FALSE, err |-> "NotCalled"]
NotVerified == [called |-> FALSE, result |-> None]
NotOpened == [called |-> FALSE, capsule |-> NoCapsule,
              result |-> Err("NotCalled")]
NoSource == [kind |-> "none", field |-> 0]

\* the five fields of a serialized capsule and their widths in bits
ArrWidths == <<TagWidth, XWidth, TagWidth, XWidth, ScalarWidth>>

RECURSIVE Pow2(_)
Pow2(n) == IF n = 0 THEN 1 ELSE 2 * Pow2(n - 1)

FlipBit(n, b) == IF (n \div Pow2(b)) % 2 = 1 THEN n - Pow2(b) ELSE n + Pow2(b)

Arrays ==
    {<<te, xe, tv, xv, sg>> :
        te \in 0 .. (Pow2(TagWidth) - 1), xe \in 0 .. (Pow2(XWidth) - 1),
        tv \in 0 .. (Pow2(TagWidth) - 1), xv \in 0 .. (Pow2(XWidth) - 1),
        sg \in 0 .. (Pow2(ScalarWidth) - 1)}

InitCommon ==
    /\ capsule = NoCapsule
    /\ key_seed = NoSeed
    /\ capsule2 = NoCapsule
    /\ key_seed2 = NoSeed
    /\ original_seed = NoSeed
    /\ capsule_arr = NoArray
    /\ arr_source = NoSource
    /\ capsule_back = NotParsed
    /\ verified = NotVerified
    /\ kfrags = <<>>
    /\ threshold = 0
    /\ kfrags2 = <<>>
    /\ cfrags = <<>>
    /\ opened = NotOpened

KemVars == <<original_seed, capsule_arr, arr_source, capsule_back, verified>>
OpenVars == <<capsule2, key_seed2, kfrags, threshold, kfrags2, cfrags, opened>>
KeyVars == <<hash_salt, delegating_sk, receiving_sk>>

\* A behaviour follows one construction path: encapsulation, bytes received
\* from outside, or new_verified on arbitrary components.

\* Capsule::from_public_key with the two scalars the RNG yields
FromPublicKey(R, U) ==
    /\ capsule = NoCapsule
    /\ capsule_arr = NoArray
    /\ verified = NotVerified
    /\ \E priv_r \in R, priv_u \in U :
          LET out == from_public_key(priv_r, priv_u, PublicKey(delegating_sk))
          IN  /\ capsule' = out.capsule
              /\ key_seed' = out.seed
    /\ UNCHANGED <<KeyVars, KemVars, OpenVars>>

\* capsule.open_original(&delegating_sk)
OpenOriginal ==
    /\ capsule # NoCapsule
    /\ original_seed = NoSeed
    /\ original_seed' = open_original(capsule, delegating_sk)
    /\ UNCHANGED <<KeyVars, capsule, key_seed, OpenVars, capsule_arr,
                   arr_source, capsule_back, verified>>

\* capsule.to_array()
ToArray ==
    /\ capsule # NoCapsule
    /\ capsule_arr = NoArray
    /\ capsule_arr' = to_array(capsule)
    /\ arr_source' = [kind |-> "to_array", field |-> 0]
    /\ UNCHANGED <<KeyVars, capsule, key_seed, OpenVars, original_seed,
                   capsule_back, verified>>

\* one bit of the serialized capsule is flipped on the way
CorruptBit ==
    /\ arr_source.kind = "to_array"
    /\ capsule_back = NotParsed
    /\ \E f \in 1 .. Len(capsule_arr) : \E b \in 0 .. (ArrWidths[f] - 1) :
          /\ capsule_arr' = [capsule_arr EXCEPT ![f] = FlipBit(@, b)]
          /\ arr_source' = [kind |-> "corrupted", field |-> f]
    /\ UNCHANGED <<KeyVars, capsule, key_seed, OpenVars, original_seed,
                   capsule_back, verified>>

\* bytes supplied from outside
ReceiveArray ==
    /\ capsule = NoCapsule
    /\ capsule_arr = NoArray
    /\ verified = NotVerified
    /\ \E arr \in Arrays :
          /\ capsule_arr' = arr
          /\ arr_source' = [kind |-> "external", field |-> 0]
    /\ UNCHANGED <<KeyVars, capsule, key_seed, OpenVars, original_seed,
                   capsule_back, verified>>

\* Capsule::from_array(&capsule_arr)
FromArray ==
    /\ capsule_arr # NoArray
    /\ capsule_back = NotParsed
    /\ capsule_back' = from_array(capsule_arr)
    /\ UNCHANGED <<KeyVars, capsule, key_seed, OpenVars, original_seed,
                   capsule_arr, arr_source, verified>>

\* Capsule::new_verified on arbitrary components
NewVerified ==
    /\ capsule = NoCapsule
    /\ capsule_arr = NoArray
    /\ verified = NotVerified
    /\ \E point_e \in Points, point_v \in Points, signature \in Scalars :
          verified' = [called |-> TRUE,
                       point_e |-> point_e, point_v |-> point_v,
                       signature |-> signature,
                       result |-> new_verified(point_e, point_v, signature)]
    /\ UNCHANGED <<KeyVars, capsule, key_seed, OpenVars, original_seed,
                   capsule_arr, arr_source, capsule_back>>

Init ==
    /\ hash_salt \in 0 .. MaxSalt
    /\ delegating_sk \in NonZeroScalars
    /\ receiving_sk = 1
    /\ InitCommon

Next ==
    \/ FromPublicKey(NonZeroScalars, NonZeroScalars)
    \/ OpenOriginal
    \/ ToArray
    \/ CorruptBit
    \/ ReceiveArray
    \/ FromArray
    \/ NewVerified

Spec == Init /\ [][Next]_vars

----------------------------------------------------------------------------
(* Re-encryption scenarios of tests::test_open_reencrypted *)

Range(f) == {f[i] : i \in DOMAIN f}

\* identifiers of the key fragments of the k-th generate_kfrags call
KFragIds(k) == [i \in 1 .. NumKFrags |-> (k - 1) * NumKFrags + i]

LiveCapsules == {capsule, capsule2} \ {NoCapsule}

\* the capsule fragments a proxy makes from capsule c with known key fragments
CFragsOf(c) == {reencrypt(c, kf) : kf \in Range(kfrags) \cup Range(kfrags2)}

\* a second Capsule::from_public_key with the same delegating key
FromPublicKey2(R, U) ==
    /\ capsule # NoCapsule
    /\ capsule2 = NoCapsule
    /\ kfrags = <<>>
    /\ \E priv_r \in R, priv_u \in U :
          LET out == from_public_key(priv_r, priv_u, PublicKey(delegating_sk))
          IN  /\ capsule2' = out.capsule
              /\ key_seed2' = out.seed
    /\ UNCHANGED <<KeyVars, KemVars, capsule, key_seed, kfrags, threshold,
                   kfrags2, cfrags, opened>>

\* generate_kfrags(&delegating_sk, &receiving_pk, &signer, t, NumKFrags, ..)
\* with the precursor secret and the coefficients the RNG yields
GenerateKFrags(X, F) ==
    /\ capsule # NoCapsule
    /\ kfrags = <<>>
    /\ \E t \in 1 .. NumKFrags, x \in X :
          \E coeffs \in [1 .. (t - 1) -> F] :
             /\ kfrags' = generate_kfrags(delegating_sk, PublicKey(receiving_sk),
                                          x, coeffs, KFragIds(1))
             /\ threshold' = t
    /\ UNCHANGED <<KeyVars, KemVars, capsule, key_seed, capsule2, key_seed2,
                   kfrags2, cfrags, opened>>

\* a second generate_kfrags call with the same keys and new randoms
GenerateKFrags2(X, F) ==
    /\ kfrags # <<>>
    /\ kfrags2 = <<>>
    /\ cfrags = <<>>
    /\ \E x \in X, f1 \in F :
          kfrags2' = generate_kfrags(delegating_sk, PublicKey(receiving_sk),
                                     x, <<f1>>, KFragIds(2))
    /\ UNCHANGED <<KeyVars, KemVars, capsule, key_seed, capsule2, key_seed2,
                   kfrags, threshold, cfrags, opened>>

\* reencrypt(&c, &kfrag), its result appended to the list collected by the
\* receiver; the fragments of one list are made from one capsule
Reencrypt ==
    /\ Len(cfrags) < MaxCFrags
    /\ opened = NotOpened
    /\ \E c \in LiveCapsules, kf \in Range(kfrags) \cup Range(kfrags2) :
          /\ \A i \in 1 .. Len(cfrags) : cfrags[i] \in CFragsOf(c)
          /\ cfrags' = Append(cfrags, reencrypt(c, kf))
    /\ UNCHANGED <<KeyVars, KemVars, capsule, key_seed, capsule2, key_seed2,
                   kfrags, threshold, kfrags2, opened>>

\* c.open_reencrypted(&receiving_sk, &delegating_pk, &cfrags)
OpenReencrypted ==
    /\ opened = NotOpened
    /\ \E c \in LiveCapsules :
          opened' = [called |-> TRUE, capsule |-> c,
                     result |-> open_reencrypted(c, receiving_sk,
                                    PublicKey(delegating_sk), cfrags)]
    /\ UNCHANGED <<KeyVars, KemVars, capsule, key_seed, capsule2, key_seed2,
                   kfrags, threshold, kfrags2, cfrags>>

\* Two issuance runs for one capsule (capsule.rs lines 299-344)
InitRuns ==
    /\ hash_salt \in {0, 1}
    /\ delegating_sk \in {2, 5}
    /\ receiving_sk = 3
    /\ InitCommon

NextRuns ==
    \/ FromPublicKey({1, 3}, {2, 6})
    \/ GenerateKFrags({1, 4}, {1, 5})
    \/ GenerateKFrags2({4, 6}, {3})
    \/ Reencrypt
    \/ OpenReencrypted

SpecRuns == InitRuns /\ [][NextRuns]_vars

\* Two capsules and one issuance run (capsule.rs lines 346-352)
InitCaps ==
    /\ hash_salt \in {0, 1}
    /\ delegating_sk = 2
    /\ receiving_sk = 3
    /\ InitCommon

NextCaps ==
    \/ FromPublicKey(NonZeroScalars, NonZeroScalars)
    \/ FromPublicKey2({2}, {1, 2, 3})
    \/ GenerateKFrags({4}, {3, 5})
    \/ Reencrypt
    \/ OpenReencrypted

SpecCaps == InitCaps /\ [][NextCaps]_vars

----------------------------------------------------------------------------
(* Properties of encapsulation, verification and serialization (Spec) *)

\* the verification equation on the three components an array parses to
ParsedSatisfiesEquation(arr) ==
    LET e == PointFromArray(<<arr[1], arr[2]>>)
        v == PointFromArray(<<arr[3], arr[4]>>)
        s == ScalarFromArray(arr[5])
    IN  /\ e.some /\ v.some /\ s.some
        /\ PointMul(Generator, s.val)
             = PointAdd(v.val, PointMul(e.val, hash_capsule_points(e.val, v.val)))

\* C2: open_original with the delegating secret key returns exactly the
\* seed that from_public_key returned alongside the capsule.
C2_OpenOriginalEqualsSeed ==
    original_seed # NoSeed => original_seed = key_seed

C2_Witness ==
    /\ capsule # NoCapsule
    /\ original_seed # NoSeed
    /\ original_seed = key_seed
    /\ original_seed # PointToArray(Identity)

\* C3: every Capsule value a constructor hands out (from_public_key,
\* new_verified, from_array) satisfies the self-verification equation.
C3_EveryCapsuleVerifies ==
    /\ capsule # NoCapsule => verify(capsule)
    /\ capsule2 # NoCapsule => verify(capsule2)
    /\ capsule_back.ok => verify(capsule_back.capsule)
    /\ (verified.called /\ verified.result.some) => verify(verified.result.val)

C3_Witness ==
    /\ capsule # NoCapsule
    /\ verify(capsule)
    /\ capsule_back.ok

C3_WitnessNewVerified ==
    /\ verified.called
    /\ verified.result.some

\* C5: from_array(to_array(capsule)) is Ok with a capsule equal to the
\* original in point_e, point_v, signature and parameters.
C5_RoundTrip ==
    (arr_source.kind = "to_array" /\ capsule_back # NotParsed)
        => capsule_back = OkCapsule(capsule)

C5_Witness ==
    /\ arr_source.kind = "to_array"
    /\ capsule_back.ok
    /\ capsule_back.capsule = capsule

\* C6 as stated: from_array rejects every array whose parsed components do
\* not satisfy the verification equation, and in particular every
\* single-bit corruption of a valid capsule's array.
C6_Original ==
    capsule_back # NotParsed =>
        /\ ~ParsedSatisfiesEquation(capsule_arr) => capsule_back = ConstructionError
        /\ arr_source.kind = "corrupted" => capsule_back = ConstructionError

\* C6 amended: from_array rejects every array whose parsed components do
\* not satisfy the verification equation; a single-bit corruption of the
\* signature field of a valid capsule's array is always rejected, and a
\* single-bit corruption of a point field is rejected unless the corrupted
\* components themselves satisfy the verification equation.
C6_RejectsUnverified ==
    capsule_back # NotParsed =>
        /\ ~ParsedSatisfiesEquation(capsule_arr) => capsule_back = ConstructionError
        /\ (arr_source.kind = "corrupted" /\ arr_source.field = 5)
               => capsule_back = ConstructionError
        /\ (arr_source.kind = "corrupted" /\ capsule_back.ok)
               => /\ ParsedSatisfiesEquation(capsule_arr)
                  /\ capsule_back.capsule # capsule

C6_Witness ==
    /\ arr_source.kind = "corrupted"
    /\ PointFromArray(<<capsule_arr[1], capsule_arr[2]>>).some
    /\ PointFromArray(<<capsule_arr[3], capsule_arr[4]>>).some
    /\ ScalarFromArray(capsule_arr[5]).some
    /\ capsule_back = ConstructionError

----------------------------------------------------------------------------
(* Properties of the threshold combination (SpecRuns, SpecCaps) *)

\* the polynomial coordinate open_reencrypted derives for a fragment
CoordOf(frag) ==
    hash_to_polynomial_arg(frag.precursor, PublicKey(receiving_sk),
                           PointMul(frag.precursor, receiving_sk), frag.kfrag_id)

DistinctFrags(frags) ==
    \A i, j \in 1 .. Len(frags) : i # j => frags[i] # frags[j]

DistinctCoords(frags) ==
    \A i, j \in 1 .. Len(frags) : i # j => CoordOf(frags[i]) # CoordOf(frags[j])

\* the fragments of the first issuance run made from capsule c
Run1FragsOf(c) == {reencrypt(c, kf) : kf \in Range(kfrags)}

AllFromRun1Of(c) == \A i \in 1 .. Len(cfrags) : cfrags[i] \in Run1FragsOf(c)

SeedOf(c) == IF c = capsule THEN key_seed ELSE key_seed2

\* C1 as stated: any k distinct fragments of the run (t <= k <= n, any
\* order), made from the capsule, open to the encapsulation-time seed.
C1_Original ==
    (/\ opened.called
     /\ opened.capsule = capsule
     /\ kfrags # <<>>
     /\ AllFromRun1Of(capsule)
     /\ DistinctFrags(cfrags)
     /\ Len(cfrags) >= threshold)
        => opened.result = OkSeed(key_seed)

\* C1 amended: any k fragments of the run with pairwise distinct polynomial
\* coordinates (t <= k <= n, any order), made from the capsule, open to the
\* encapsulation-time seed, whichever subset is chosen.
C1_ThresholdOpens ==
    (/\ opened.called
     /\ opened.capsule = capsule
     /\ kfrags # <<>>
     /\ AllFromRun1Of(capsule)
     /\ DistinctCoords(cfrags)
     /\ Len(cfrags) >= threshold)
        => opened.result = OkSeed(key_seed)

C1_Witness ==
    /\ opened.called
    /\ opened.capsule = capsule
    /\ threshold = 2
    /\ Len(cfrags) = 2
    /\ AllFromRun1Of(capsule)
    /\ DistinctCoords(cfrags)
    /\ cfrags[1] = reencrypt(capsule, kfrags[3])
    /\ cfrags[2] = reencrypt(capsule, kfrags[1])
    /\ opened.result = OkSeed(key_seed)

\* C8: a non-empty list in which not all fragments carry the same precursor
\* yields MismatchedCapsuleFrags, wherever the differing fragment stands and
\* whatever later check would fail too.
C8_MismatchedPrecursors ==
    (/\ opened.called
     /\ \E i, j \in 1 .. Len(cfrags) : cfrags[i].precursor # cfrags[j].precursor)
        => opened.result = Err("MismatchedCapsuleFrags")

C8_Witness ==
    /\ opened.called
    /\ Len(cfrags) = 3
    /\ cfrags[1] = cfrags[2]
    /\ cfrags[3].precursor # cfrags[1].precursor
    /\ opened.result = Err("MismatchedCapsuleFrags")

\* C9: with one common precursor, two positions with the same polynomial
\* coordinate yield RepeatingCapsuleFrags (never ValidationFailed or Ok),
\* and a single-fragment list never yields RepeatingCapsuleFrags.
C9_RepeatingCoordinates ==
    opened.called =>
        /\ (/\ cfrags # <<>>
            /\ \A i \in 1 .. Len(cfrags) : cfrags[i].precursor = cfrags[1].precursor
            /\ ~DistinctCoords(cfrags))
               => opened.result = Err("RepeatingCapsuleFrags")
        /\ Len(cfrags) = 1 => opened.result # Err("RepeatingCapsuleFrags")

C9_Witness ==
    /\ opened.called
    /\ Len(cfrags) = 3
    /\ CoordOf(cfrags[2]) = CoordOf(cfrags[3])
    /\ cfrags[2] # cfrags[3]
    /\ CoordOf(cfrags[1]) # CoordOf(cfrags[2])
    /\ opened.result = Err("RepeatingCapsuleFrags")

\* C10: the empty list, and only the empty list, yields NoCapsuleFrags.
C10_NoCapsuleFrags ==
    opened.called => (cfrags = <<>> <=> opened.result = Err("NoCapsuleFrags"))

C10_Witness ==
    /\ opened.called
    /\ cfrags = <<>>
    /\ opened.result = Err("NoCapsuleFrags")

C10_WitnessNonEmpty ==
    /\ opened.called
    /\ Len(cfrags) = 1
    /\ opened.result # Err("NoCapsuleFrags")

\* the live capsules other than the one open_reencrypted was called on
OtherCapsules == LiveCapsules \ {opened.capsule}

\* capsule c also satisfies the verification equation of the capsule
\* open_reencrypted was called on: g * s = c.v + c.e * H1(e, v)
SatisfiesOpenedEquation(c) ==
    PointMul(Generator, opened.capsule.signature)
        = PointAdd(c.point_v,
                   PointMul(c.point_e,
                            hash_capsule_points(opened.capsule.point_e,
                                                opened.capsule.point_v)))

\* C7 as stated: opening a capsule with at least threshold fragments (of
\* distinct coordinates) made from a different capsule of the same
\* delegating key yields ValidationFailed.
C7_Original ==
    \A c \in OtherCapsules :
        (/\ opened.called
         /\ kfrags # <<>>
         /\ AllFromRun1Of(c)
         /\ DistinctCoords(cfrags)
         /\ Len(cfrags) >= threshold)
            => opened.result = Err("ValidationFailed")

\* C7 amended: such a call yields ValidationFailed unless the capsule the
\* fragments were made from satisfies the verification equation of the
\* capsule the call is made on; then it yields Ok with the seed of the
\* capsule the fragments were made from.
C7_WrongCapsule ==
    \A c \in OtherCapsules :
        (/\ opened.called
         /\ kfrags # <<>>
         /\ AllFromRun1Of(c)
         /\ DistinctCoords(cfrags)
         /\ Len(cfrags) >= threshold)
            => opened.result = IF SatisfiesOpenedEquation(c)
                               THEN OkSeed(SeedOf(c))
                               ELSE Err("ValidationFailed")

C7_Witness ==
    /\ opened.called
    /\ opened.capsule = capsule2
    /\ capsule # capsule2
    /\ threshold = 2
    /\ Len(cfrags) = 3
    /\ AllFromRun1Of(capsule)
    /\ DistinctCoords(cfrags)
    /\ ~SatisfiesOpenedEquation(capsule)
    /\ opened.result = Err("ValidationFailed")

C7_WitnessAccepted ==
    /\ opened.called
    /\ opened.capsule = capsule2
    /\ capsule # capsule2
    /\ Len(cfrags) >= threshold
    /\ kfrags # <<>>
    /\ AllFromRun1Of(capsule)
    /\ DistinctCoords(cfrags)
    /\ opened.result = OkSeed(key_seed)
    /\ key_seed # key_seed2

\* C4 as stated: whenever open_reencrypted returns Ok on fragments made
\* from one capsule (the same or a different one) with key fragments of a
\* single run, the seed is the encapsulation-time seed of the capsule the
\* call was made on.
C4_Original ==
    \A c \in LiveCapsules :
        (/\ opened.called
         /\ kfrags # <<>>
         /\ AllFromRun1Of(c)
         /\ opened.result.ok)
            => opened.result.seed = SeedOf(opened.capsule)

\* C4 amended: whenever open_reencrypted returns Ok on a capsule with a
\* non-zero signature and fragments made from that same capsule with key
\* fragments of a single run (any number, also fewer than the threshold),
\* the seed is the encapsulation-time seed of the capsule; a result that is
\* not Ok is one of the four errors and carries no seed.
C4_OkMeansSeed ==
    opened.called =>
        /\ (/\ kfrags # <<>>
            /\ AllFromRun1Of(opened.capsule)
            /\ opened.capsule.signature # 0
            /\ opened.result.ok)
               => opened.result = OkSeed(SeedOf(opened.capsule))
        /\ ~opened.result.ok =>
               opened.result \in {Err("NoCapsuleFrags"),
                                  Err("MismatchedCapsuleFrags"),
                                  Err("RepeatingCapsuleFrags"),
                                  Err("ValidationFailed")}

C4_Witness ==
    /\ opened.called
    /\ cfrags # <<>>
    /\ Len(cfrags) < threshold
    /\ AllFromRun1Of(opened.capsule)
    /\ opened.capsule.signature # 0
    /\ opened.result = OkSeed(SeedOf(opened.capsule))

C4_WitnessRejected ==
    /\ opened.called
    /\ threshold = 3
    /\ Len(cfrags) = 2
    /\ AllFromRun1Of(opened.capsule)
    /\ opened.result = Err("ValidationFailed")

====
